---------------------------- MODULE Spec2Model ----------------------------
(***************************************************************************)
(* A model of the language pipeline of src/qt_app.py (class MainWindow):   *)
(*   lexer     - the regular-expression scanner (lines 463-496),           *)
(*   parser    - the tree builder over the token list (lines 498-563),     *)
(*   run_code  - the line interpreter (lines 341-427).                     *)
(* and of parser run on lexer's result, as analyze_code does (lines        *)
(* 439-444).                                                               *)
(* Source text is a sequence of one-character strings; a token is the      *)
(* pair <<kind, value>> the lexer appends, value being the matched         *)
(* characters.  An uncaught Python exception ends a routine in the         *)
(* control state "crash".                                                  *)
(***************************************************************************)
EXTENDS Integers, Sequences, FiniteSets, TLC

VARIABLES
    \* lexer(code)
    code,          \* the source text, a sequence of characters
    pos,           \* mo.end() of the previous match: characters consumed so far
    line_num,      \* the lexer's line counter
    line_start,    \* offset after the last NEWLINE match
    tokens,        \* the token list (built by lexer, read by parser)
    lex_pc,        \* "scan" | "returned" | "idle"
    lex_ret,       \* the value lexer returned (meaningful once lex_pc = "returned")
    lex_out,       \* what lexer wrote to the output console
    \* parser(tokens)
    parse_i,       \* the parser's index i into tokens (0-based)
    nodes,         \* the QTreeWidgetItems created and attached so far
    current_node,  \* index into nodes, or None
    parse_pc,      \* "idle" | "check" | "loop" | "tree" | "error" | "crash"
    parse_out,     \* what parser wrote to the output console
    \* run_code()
    lines,         \* code.split('\n'), each line in structured form
    i,             \* the interpreter's line index (0-based)
    variables,     \* the environment: name -> value, None when unbound
    functions,     \* the function table: name -> captured body, None when unbound
    output,        \* lines appended to the console by imprimir
    errors,        \* diagnostics appended to the console
    pc,            \* "idle" | "top" | "func" | "si_body" | "para_cond" | "para_body" | "done" | "error" | "crash"
    frame,         \* locals of the statement in progress (func_name/func_body, para clauses)
    hist           \* history of the run: per-line output counts, loop summaries

lexLocals == <<code, pos, line_num, line_start, lex_pc, lex_ret, lex_out>>
lexVars   == <<lexLocals, tokens>>
parseVars == <<parse_i, nodes, current_node, parse_pc, parse_out>>
runVars   == <<lines, i, variables, functions, output, errors, pc, frame, hist>>
vars      == <<lexVars, parseVars, runVars>>

\* Python's None where a node is expected: no index of nodes
None == 0

-----------------------------------------------------------------------------
(* Bounds of the model.                                                    *)

\* number of text chunks a generated source is concatenated from
MaxChunks == 4
\* number of tokens in a generated token list of any shape
MaxTokens == 3
\* number of tokens between INICIO and FIN in a generated delimited token list
MaxInner == 3
\* number of lines in a generated program
MaxLines == 4
\* number of statements and block words between INICIO and FIN in a generated
\* token list of si blocks
MaxSiChunks == 7
\* number of words between inicio and fin in a generated source that is lexed
\* and then parsed
MaxWords == 3

-----------------------------------------------------------------------------
(* Sequence helpers.                                                       *)

RECURSIVE Flatten(_)
Flatten(ss) == IF ss = <<>> THEN <<>> ELSE Head(ss) \o Flatten(Tail(ss))

SeqsUpTo(S, n) == UNION {[1..k -> S] : k \in 0..n}

\* str.startswith
startswith(s, prefix) ==
    Len(prefix) <= Len(s) /\ SubSeq(s, 1, Len(prefix)) = prefix

-----------------------------------------------------------------------------
(* lexer: character classes of the token_specification patterns.           *)

Digits  == {"0", "1", "2", "3", "4", "5", "6", "7", "8", "9"}
Letters == {"a", "b", "c", "d", "e", "f", "g", "h", "i", "j", "k", "l", "m",
            "n", "o", "p", "q", "r", "s", "t", "u", "v", "w", "x", "y", "z",
            "A", "B", "C", "D", "E", "F", "G", "H", "I", "J", "K", "L", "M",
            "N", "O", "P", "Q", "R", "S", "T", "U", "V", "W", "X", "Y", "Z",
            "_"}
WordChars == Letters \cup Digits
OpChars   == {"+", "-", "*", "/", "=", "<", ">"}
SkipChars == {" ", "\t"}
NL        == "\n"
Quote     == "\""

kw_inicio   == <<"i", "n", "i", "c", "i", "o">>
kw_fin      == <<"f", "i", "n">>
kw_funcion  == <<"f", "u", "n", "c", "i", "o", "n">>
kw_retornar == <<"r", "e", "t", "o", "r", "n", "a", "r">>
kw_var      == <<"v", "a", "r">>
kw_mientras == <<"m", "i", "e", "n", "t", "r", "a", "s">>
kw_si       == <<"s", "i">>
kw_entonces == <<"e", "n", "t", "o", "n", "c", "e", "s">>
kw_fin_si   == <<"f", "i", "n", "_", "s", "i">>
kw_sino     == <<"s", "i", "n", "o">>
kw_para     == <<"p", "a", "r", "a">>
kw_imprimir == <<"i", "m", "p", "r", "i", "m", "i", "r">>

keywords == {kw_inicio, kw_fin, kw_funcion, kw_retornar, kw_var, kw_mientras,
             kw_si, kw_entonces, kw_fin_si, kw_sino, kw_para, kw_imprimir}

\* value.upper() for the words of keywords
upper(value) ==
    CASE value = kw_inicio   -> "INICIO"
      [] value = kw_fin      -> "FIN"
      [] value = kw_funcion  -> "FUNCION"
      [] value = kw_retornar -> "RETORNAR"
      [] value = kw_var      -> "VAR"
      [] value = kw_mientras -> "MIENTRAS"
      [] value = kw_si       -> "SI"
      [] value = kw_entonces -> "ENTONCES"
      [] value = kw_fin_si   -> "FIN_SI"
      [] value = kw_sino     -> "SINO"
      [] value = kw_para     -> "PARA"
      [] value = kw_imprimir -> "IMPRIMIR"

\* End offset of the longest run of characters of class C that starts at
\* offset p (0-based) of s; p itself when the character there is not in C.
RECURSIVE RunEnd(_, _, _)
RunEnd(s, p, C) ==
    IF p < Len(s) /\ s[p + 1] \in C THEN RunEnd(s, p + 1, C) ELSE p

\* r'"[^"]*"' at offset p: the end offset of the match, or p when it fails.
StringEnd(s, p) ==
    IF p < Len(s) /\ s[p + 1] = Quote
         /\ \E q \in (p + 2)..Len(s) : s[q] = Quote
    THEN CHOOSE q \in (p + 2)..Len(s) :
             /\ s[q] = Quote
             /\ \A r \in (p + 2)..(q - 1) : s[r] # Quote
    ELSE p

\* r'[A-Za-z_]\w*' at offset p.
IdEnd(s, p) ==
    IF p < Len(s) /\ s[p + 1] \in Letters THEN RunEnd(s, p + 1, WordChars) ELSE p

\* One character of class C at offset p.
CharEnd(s, p, C) == IF p < Len(s) /\ s[p + 1] \in C THEN p + 1 ELSE p

\* r'.' at offset p: any character but a newline.
DotEnd(s, p) == IF p < Len(s) /\ s[p + 1] # NL THEN p + 1 ELSE p

\* The alternatives of tok_regex in their order, each with the end of its match.
token_specification(s, p) ==
    << <<"STRING",   StringEnd(s, p)>>,
       <<"NUMBER",   RunEnd(s, p, Digits)>>,
       <<"ID",       IdEnd(s, p)>>,
       <<"OP",       CharEnd(s, p, OpChars)>>,
       <<"NEWLINE",  CharEnd(s, p, {NL})>>,
       <<"SKIP",     RunEnd(s, p, SkipChars)>>,
       <<"MISMATCH", DotEnd(s, p)>> >>

\* re.match's None: nothing matches (only at the end of the text)
NoMatch == [kind |-> "None", end |-> 0, value |-> <<>>]

\* get_token(code, p): the first alternative that matches at p, as
\* [kind (mo.lastgroup), end (mo.end()), value (mo.group())], or None.
get_token(s, p) ==
    LET spec == token_specification(s, p)
        hits == {k \in 1..Len(spec) : spec[k][2] > p}
    IN  IF hits = {} THEN NoMatch
        ELSE LET k == CHOOSE h \in hits : \A g \in hits : h <= g
             IN  [kind |-> spec[k][1], end |-> spec[k][2],
                  value |-> SubSeq(s, p + 1, spec[k][2])]

\* the kind lexer gives an appended token (lines 492-493)
TokenKind(kind, value) ==
    IF kind = "ID" /\ value \in keywords THEN upper(value) ELSE kind


-----------------------------------------------------------------------------
(* lexer: the sources it is run on.                                        *)

Chunks == {kw_var, <<"x">>, <<"5">>, <<"=">>, <<" ">>, <<"\t">>, <<NL>>, <<Quote>>, <<"@">>}

\* "var x = 5\nimprimir x\n"
SourceVarImprimir ==
    Flatten(<<kw_var, <<" ">>, <<"x">>, <<" ">>, <<"=">>, <<" ">>, <<"5">>, <<NL>>,
              kw_imprimir, <<" ">>, <<"x">>, <<NL>>>>)

Sources == {Flatten(cs) : cs \in SeqsUpTo(Chunks, MaxChunks)} \cup {SourceVarImprimir}

\* what lexer returns: a token list, or None
ReturnTokens(t) == [is_none |-> FALSE, value |-> t]
ReturnNone      == [is_none |-> TRUE, value |-> <<>>]

LexIdle ==
    /\ code = <<>> /\ pos = 0 /\ line_num = 1 /\ line_start = 0
    /\ lex_pc = "idle" /\ lex_ret = ReturnNone /\ lex_out = <<>>

\* lines 476-479: the locals before the first match
LexInit ==
    /\ code \in Sources
    /\ pos = 0
    /\ line_num = 1
    /\ line_start = 0
    /\ tokens = <<>>
    /\ lex_pc = "scan"
    /\ lex_ret = ReturnNone
    /\ lex_out = <<>>

\* the match object of the current iteration
mo == get_token(code, pos)

\* lines 483-485
LexNewline ==
    /\ UNCHANGED <<parseVars, runVars>>
    /\ lex_pc = "scan" /\ mo.kind # "None" /\ mo.kind = "NEWLINE"
    /\ line_start' = mo.end
    /\ line_num' = line_num + 1
    /\ pos' = mo.end
    /\ UNCHANGED <<code, tokens, lex_pc, lex_ret, lex_out>>

\* lines 486-487
LexSkip ==
    /\ UNCHANGED <<parseVars, runVars>>
    /\ lex_pc = "scan" /\ mo.kind # "None" /\ mo.kind = "SKIP"
    /\ pos' = mo.end
    /\ UNCHANGED <<code, line_num, line_start, tokens, lex_pc, lex_ret, lex_out>>

\* lines 488-490
LexMismatch ==
    /\ UNCHANGED <<parseVars, runVars>>
    /\ lex_pc = "scan" /\ mo.kind # "None" /\ mo.kind = "MISMATCH"
    /\ lex_out' = Append(lex_out, [error |-> "lexico", value |-> mo.value, line |-> line_num])
    /\ lex_ret' = ReturnNone
    /\ lex_pc' = "returned"
    /\ UNCHANGED <<code, pos, line_num, line_start, tokens>>

\* A variant of lines 491-494 that keeps a token only for a keyword; it is
\* what LexAppend is compared with, and is no part of LexNext.
LexAppendOnlyKeywords ==
    /\ UNCHANGED <<parseVars, runVars>>
    /\ lex_pc = "scan" /\ mo.kind # "None"
    /\ mo.kind \notin {"NEWLINE", "SKIP", "MISMATCH"}
    /\ tokens' = IF mo.kind = "ID" /\ mo.value \in keywords
                 THEN Append(tokens, <<TokenKind(mo.kind, mo.value), mo.value>>)
                 ELSE tokens
    /\ pos' = mo.end
    /\ UNCHANGED <<code, line_num, line_start, lex_pc, lex_ret, lex_out>>

\* lines 491-494: every other kind appends one token
LexAppend ==
    /\ UNCHANGED <<parseVars, runVars>>
    /\ lex_pc = "scan" /\ mo.kind # "None"
    /\ mo.kind \notin {"NEWLINE", "SKIP", "MISMATCH"}
    /\ tokens' = Append(tokens, <<TokenKind(mo.kind, mo.value), mo.value>>)
    /\ pos' = mo.end
    /\ UNCHANGED <<code, line_num, line_start, lex_pc, lex_ret, lex_out>>

\* lines 480, 496: no match is left, the token list is returned
LexReturn ==
    /\ UNCHANGED <<parseVars, runVars>>
    /\ lex_pc = "scan" /\ mo.kind = "None"
    /\ lex_ret' = ReturnTokens(tokens)
    /\ lex_pc' = "returned"
    /\ UNCHANGED <<code, pos, line_num, line_start, tokens, lex_out>>

-----------------------------------------------------------------------------
(* parser: the token lists it is run on.                                   *)

Tok(kind, value) == <<kind, value>>

tok_inicio      == Tok("INICIO", kw_inicio)
tok_fin         == Tok("FIN", kw_fin)
tok_imprimir    == Tok("IMPRIMIR", kw_imprimir)
tok_si          == Tok("SI", kw_si)
tok_entonces    == Tok("ENTONCES", kw_entonces)
tok_fin_si      == Tok("FIN_SI", kw_fin_si)
tok_sino        == Tok("SINO", kw_sino)
tok_var         == Tok("VAR", kw_var)
tok_funcion     == Tok("FUNCION", kw_funcion)
tok_fin_funcion == Tok("FIN_FUNCION", kw_fin \o <<"_">> \o kw_funcion)
tok_para        == Tok("PARA", kw_para)
tok_fin_para    == Tok("FIN_PARA", kw_fin \o <<"_">> \o kw_para)
tok_newline     == Tok("NEWLINE", <<NL>>)
tok_x           == Tok("ID", <<"x">>)
tok_5           == Tok("NUMBER", <<"5">>)
tok_op          == Tok("OP", <<"=">>)

ParserTokens == {tok_inicio, tok_fin, tok_imprimir, tok_si, tok_entonces, tok_fin_si,
                 tok_sino, tok_var, tok_funcion, tok_fin_funcion, tok_para,
                 tok_fin_para, tok_newline, tok_x, tok_5, tok_op}

\* what token lists of si blocks are made of: si x entonces, fin_si, imprimir x
SiChunks == {<<tok_si, tok_x, tok_entonces>>, <<tok_fin_si>>, <<tok_imprimir, tok_x>>}

SiTokenLists ==
    {<<tok_inicio>> \o Flatten(m) \o <<tok_fin>> : m \in SeqsUpTo(SiChunks, MaxSiChunks)}

\* si x entonces / si x entonces / imprimir x / fin_si / imprimir x / fin_si /
\* imprimir x, between inicio and fin
NestedSi ==
    <<tok_inicio, tok_si, tok_x, tok_entonces, tok_si, tok_x, tok_entonces,
      tok_imprimir, tok_x, tok_fin_si, tok_imprimir, tok_x, tok_fin_si,
      tok_imprimir, tok_x, tok_fin>>

TokenLists ==
    SeqsUpTo(ParserTokens, MaxTokens)
      \cup {<<tok_inicio>> \o m \o <<tok_fin>> : m \in SeqsUpTo(ParserTokens, MaxInner)}
      \cup SiTokenLists

\* ' '.join(words)
RECURSIVE join(_)
join(words) ==
    IF words = <<>> THEN <<>>
    ELSE IF Len(words) = 1 THEN words[1]
    ELSE words[1] \o <<" ">> \o join(Tail(words))

\* QTreeWidgetItem([label]) once attached under the node parent
Item(label, parent) == [label |-> label, parent |-> parent]

ParseIdle ==
    /\ parse_i = 0 /\ nodes = <<>> /\ current_node = None
    /\ parse_pc = "idle" /\ parse_out = <<>>

\* parser is called with a token list: nothing is built yet
ParseInit ==
    /\ tokens \in TokenLists
    /\ parse_i = 0
    /\ nodes = <<>>
    /\ current_node = None
    /\ parse_pc = "check"
    /\ parse_out = <<>>

\* A variant of line 499 that leaves the last token unchecked; it is what
\* ParserPrecondition is compared with.
ParserPreconditionNoFin(t) ==
    t # <<>> /\ t[1][1] = "INICIO"

\* line 499, negated: what a token list must satisfy to be parsed
ParserPrecondition(t) ==
    t # <<>> /\ t[1][1] = "INICIO" /\ t[Len(t)][1] = "FIN"

\* lines 499-505
ParserCheck ==
    /\ UNCHANGED <<lexLocals, runVars>>
    /\ parse_pc = "check"
    /\ IF ~ParserPrecondition(tokens)
       THEN /\ parse_out' = Append(parse_out, "Error sintactico: inicio/fin")
            /\ parse_pc' = "error"
            /\ UNCHANGED <<parse_i, nodes, current_node>>
       ELSE /\ parse_i' = 0
            /\ nodes' = <<Item(kw_inicio, None)>>
            /\ current_node' = 1
            /\ parse_pc' = "loop"
            /\ UNCHANGED parse_out
    /\ UNCHANGED tokens

\* the token the loop body is at (line 507)
kind  == tokens[parse_i + 1][1]
value == tokens[parse_i + 1][2]
InLoop == parse_pc = "loop" /\ parse_i < Len(tokens)

\* an uncaught exception leaves parser
ParserCrash ==
    /\ parse_pc' = "crash"
    /\ UNCHANGED <<tokens, parse_i, nodes, current_node, parse_out>>

\* a diagnostic is printed and None returned
ParserError(msg) ==
    /\ parse_out' = Append(parse_out, msg)
    /\ parse_pc' = "error"
    /\ UNCHANGED <<tokens, parse_i, nodes, current_node>>

\* current_node.parent() (None has no parent(): AttributeError)
parent(n) == nodes[n].parent

\* lines 508-514, 561
ParseImprimir ==
    /\ UNCHANGED <<lexLocals, runVars>>
    /\ InLoop /\ kind = "IMPRIMIR"
    /\ IF parse_i + 1 >= Len(tokens)
          \/ tokens[parse_i + 2][1] \notin {"ID", "NUMBER", "STRING"}
       THEN ParserError("Error sintactico: imprimir")
       ELSE IF current_node = None THEN ParserCrash
       ELSE /\ nodes' = Append(nodes, Item(kw_imprimir \o <<" ">> \o tokens[parse_i + 2][2],
                                           current_node))
            /\ parse_i' = parse_i + 2
            /\ UNCHANGED <<tokens, current_node, parse_pc, parse_out>>

\* index (0-based) of the first token of kind k at or after index j, Len(tokens) if none
RECURSIVE ScanTo(_, _)
ScanTo(k, j) ==
    IF j < Len(tokens) /\ tokens[j + 1][1] # k THEN ScanTo(k, j + 1) ELSE j

\* the values of tokens[a .. b-1] (0-based)
Values(a, b) == [k \in 1..(b - a) |-> tokens[a + k][2]]

\* lines 515-528, 561
ParseSi ==
    /\ UNCHANGED <<lexLocals, runVars>>
    /\ InLoop /\ kind = "SI"
    /\ LET j == ScanTo("ENTONCES", parse_i + 1)
           condition == Values(parse_i + 1, j)
       IN  IF j >= Len(tokens)
           THEN ParserError("Error sintactico: entonces")
           ELSE IF current_node = None THEN ParserCrash
           ELSE /\ nodes' = Append(nodes,
                        Item(kw_si \o <<" ">> \o join(condition) \o <<" ">> \o kw_entonces,
                             current_node))
                /\ current_node' = Len(nodes) + 1
                /\ parse_i' = j + 2
                /\ UNCHANGED <<tokens, parse_pc, parse_out>>

\* current_node = current_node.parent(); i += 1 (lines 529-530, 550-551, 557-558, 561)
Pop ==
    IF current_node = None THEN ParserCrash
    ELSE /\ current_node' = parent(current_node)
         /\ parse_i' = parse_i + 1
         /\ UNCHANGED <<tokens, nodes, parse_pc, parse_out>>

\* lines 529-530
ParseFinSi ==
    /\ UNCHANGED <<lexLocals, runVars>>
    /\ InLoop /\ kind = "FIN_SI" /\ Pop

\* lines 531-534, 561
ParseSino ==
    /\ UNCHANGED <<lexLocals, runVars>>
    /\ InLoop /\ kind = "SINO"
    /\ IF current_node = None THEN ParserCrash
       ELSE IF parent(current_node) = None THEN ParserCrash
       ELSE /\ nodes' = Append(nodes, Item(kw_sino, parent(current_node)))
            /\ current_node' = Len(nodes) + 1
            /\ parse_i' = parse_i + 1
            /\ UNCHANGED <<tokens, parse_pc, parse_out>>

\* lines 535-543, 561
ParseVar ==
    /\ UNCHANGED <<lexLocals, runVars>>
    /\ InLoop /\ kind = "VAR"
    /\ IF current_node = None THEN ParserCrash
       ELSE LET j == ScanTo("NEWLINE", parse_i + 1)
                declaration == Values(parse_i + 1, j)
            IN  /\ nodes' = nodes \o <<Item(kw_var, current_node),
                                        Item(join(declaration), Len(nodes) + 1)>>
                /\ parse_i' = j + 1
                /\ UNCHANGED <<tokens, current_node, parse_pc, parse_out>>

\* lines 544-549, 561
ParseFuncion ==
    /\ UNCHANGED <<lexLocals, runVars>>
    /\ InLoop /\ kind = "FUNCION"
    /\ IF parse_i + 1 >= Len(tokens) THEN ParserCrash
       ELSE IF current_node = None THEN ParserCrash
       ELSE /\ nodes' = Append(nodes, Item(kw_funcion \o <<" ">> \o tokens[parse_i + 2][2],
                                           current_node))
            /\ current_node' = Len(nodes) + 1
            /\ parse_i' = parse_i + 2
            /\ UNCHANGED <<tokens, parse_pc, parse_out>>

\* lines 550-551
ParseFinFuncion ==
    /\ UNCHANGED <<lexLocals, runVars>>
    /\ InLoop /\ kind = "FIN_FUNCION" /\ Pop

\* lines 552-556, 561
ParsePara ==
    /\ UNCHANGED <<lexLocals, runVars>>
    /\ InLoop /\ kind = "PARA"
    /\ IF parse_i + 3 >= Len(tokens) THEN ParserCrash
       ELSE IF current_node = None THEN ParserCrash
       ELSE /\ nodes' = Append(nodes,
                   Item(kw_para \o <<" ">> \o join(Values(parse_i + 1, parse_i + 4)),
                        current_node))
            /\ current_node' = Len(nodes) + 1
            /\ parse_i' = parse_i + 4
            /\ UNCHANGED <<tokens, parse_pc, parse_out>>

\* lines 557-558
ParseFinPara ==
    /\ UNCHANGED <<lexLocals, runVars>>
    /\ InLoop /\ kind = "FIN_PARA" /\ Pop

\* lines 559-561
ParseOther ==
    /\ UNCHANGED <<lexLocals, runVars>>
    /\ InLoop
    /\ kind \notin {"IMPRIMIR", "SI", "FIN_SI", "SINO", "VAR", "FUNCION", "FIN_FUNCION",
                    "PARA", "FIN_PARA"}
    /\ IF current_node = None THEN ParserCrash
       ELSE /\ nodes' = Append(nodes, Item(value, current_node))
            /\ parse_i' = parse_i + 1
            /\ UNCHANGED <<tokens, current_node, parse_pc, parse_out>>

\* lines 506, 562-563: the loop is over, the tree is returned
ParseReturn ==
    /\ UNCHANGED <<lexLocals, runVars>>
    /\ parse_pc = "loop" /\ parse_i >= Len(tokens)
    /\ nodes' = Append(nodes, Item(kw_fin, 1))
    /\ parse_pc' = "tree"
    /\ UNCHANGED <<tokens, parse_i, current_node, parse_out>>

-----------------------------------------------------------------------------
(* run_code: expressions and lines.                                        *)
(* A line is kept in the form run_code takes it apart into: the word it    *)
(* starts with (after strip()), and the operands its split() calls give.   *)

\* expressions handed to eval
Num(n)    == [op |-> "num", x |-> "", n |-> n]
Ref(x)    == [op |-> "ref", x |-> x, n |-> 0]
Add(x, n) == [op |-> "add", x |-> x, n |-> n]
Lt(x, n)  == [op |-> "lt", x |-> x, n |-> n]
\* a double-quoted operand of imprimir
Str(t)    == [op |-> "str", x |-> t, n |-> 0]

\* eval(e, {}, env): the value, or raised = TRUE (NameError for an unbound name)
Raised == [raised |-> TRUE, type |-> "int", v |-> 0]
Value(type, v) == [raised |-> FALSE, type |-> type, v |-> v]
eval(e, env) ==
    CASE e.op = "num" -> Value("int", e.n)
      [] e.op = "str" -> Value("str", 0)
      [] e.op = "ref" -> IF e.x \in DOMAIN env THEN Value("int", env[e.x]) ELSE Raised
      [] e.op = "add" -> IF e.x \in DOMAIN env THEN Value("int", env[e.x] + e.n) ELSE Raised
      [] e.op = "lt"  -> IF e.x \in DOMAIN env
                         THEN Value("bool", IF env[e.x] < e.n THEN 1 ELSE 0) ELSE Raised

\* str(message)
str(val) ==
    IF val.type = "bool" THEN (IF val.v = 1 THEN "True" ELSE "False") ELSE ToString(val.v)

\* env[name] = v
Bind(env, name, v) ==
    [n \in DOMAIN env \cup {name} |-> IF n = name THEN v ELSE env[n]]

kw_fin_funcion == kw_fin \o <<"_">> \o kw_funcion
kw_fin_para    == kw_fin \o <<"_">> \o kw_para

NoExpr == Num(0)
Blank == [word |-> <<>>, name |-> "", e1 |-> NoExpr, e2 |-> NoExpr, e3 |-> NoExpr,
          tgt |-> "", parts |-> 0, lead |-> FALSE]

\* var <name> = <e>          (parts: what split('=') gives)
VarLine(name, e) == [Blank EXCEPT !.word = kw_var, !.name = name, !.e1 = e, !.parts = 2]
\* funcion <name>
FuncionLine(name) == [Blank EXCEPT !.word = kw_funcion, !.name = name]
\* imprimir <e>
ImprimirLine(e) == [Blank EXCEPT !.word = kw_imprimir, !.e1 = e]
\* si <name> == <e> entonces (parts: what condition.split("==") gives)
SiLine(name, e) == [Blank EXCEPT !.word = kw_si, !.name = name, !.e1 = e, !.parts = 2]
\* para <name> = <e1>;<e2>;<tgt> = <e3>   (parts: what split(';') gives;
\* lead: the increment clause starts with a blank, as in "; i = i + 1")
ParaLine(name, init, cond, tgt, incr, parts, lead) ==
    [Blank EXCEPT !.word = kw_para, !.name = name, !.e1 = init, !.e2 = cond,
                  !.tgt = tgt, !.e3 = incr, !.parts = parts, !.lead = lead]
\* a line that is one word
WordLine(w) == [Blank EXCEPT !.word = w]

L_var_x5      == VarLine("x", Num(5))
L_var_xy      == VarLine("x", Ref("y"))
L_imp_str     == ImprimirLine(Str("yes"))
L_imp_x       == ImprimirLine(Ref("x"))
L_imp_i       == ImprimirLine(Ref("i"))
L_si          == SiLine("x", Num(5))
L_fin_si      == WordLine(kw_fin_si)
L_para        == ParaLine("i", Num(0), Lt("i", 2), "i", Add("i", 1), 3, FALSE)
L_para2       == ParaLine("i", Num(0), Lt("i", 2), "", NoExpr, 2, FALSE)
L_fin_para    == WordLine(kw_fin_para)
L_funcion     == FuncionLine("f")
L_fin_funcion == WordLine(kw_fin_funcion)
L_inicio      == WordLine(kw_inicio)
L_fin         == WordLine(kw_fin)

LineSet == {L_var_x5, L_var_xy, L_imp_str, L_imp_x, L_imp_i, L_si, L_fin_si,
            L_para, L_para2, L_fin_para, L_funcion, L_fin_funcion}

\* the programs of the spec's examples; the para clauses are written there
\* with a declared loop variable and blanks after the semicolons
L_var_x6  == VarLine("x", Num(6))
L_para_sp == ParaLine("i", Num(0), Lt("i", 3), "i", Add("i", 1), 3, TRUE)
L_para_decl == ParaLine("var i", Num(0), Lt("i", 3), "i", Add("i", 1), 3, TRUE)
L_para3   == ParaLine("i", Num(0), Lt("i", 3), "i", Add("i", 1), 3, FALSE)
ExamplePrograms ==
    { <<L_inicio, L_var_x5, L_imp_x, L_fin>>,
      <<L_inicio, L_var_x5, L_si, L_imp_str, L_fin_si, L_fin>>,
      <<L_inicio, L_var_x6, L_si, L_imp_str, L_fin_si, L_fin>>,
      <<L_inicio, L_para_decl, L_imp_i, L_fin_para, L_fin>>,
      <<L_inicio, L_para_sp, L_imp_i, L_fin_para, L_fin>>,
      <<L_inicio, L_para3, L_imp_i, L_fin_para, L_fin>>,
      <<L_para, L_fin_para, L_funcion, L_imp_str, L_fin_funcion>> }

Programs == SeqsUpTo(LineSet, MaxLines) \cup ExamplePrograms

-----------------------------------------------------------------------------
(* run_code: the interpreter.                                              *)

NoFrame == [func_name |-> "", func_body |-> <<>>, condition |-> NoExpr,
            tgt |-> "", increment |-> NoExpr, lead |-> FALSE]

RunIdle ==
    /\ lines = <<>> /\ i = 0 /\ variables = <<>> /\ functions = <<>>
    /\ output = <<>> /\ errors = <<>> /\ pc = "idle" /\ frame = NoFrame /\ hist = <<>>

\* lines 342-346
RunInit ==
    /\ lines \in Programs
    /\ i = 0
    /\ variables = <<>>
    /\ functions = <<>>
    /\ output = <<>>
    /\ errors = <<>>
    /\ pc = "top"
    /\ frame = NoFrame
    /\ hist = <<>>

\* lines[i].strip(); the index must be one of the list (IndexError otherwise)
line == lines[i + 1]

\* the chain of startswith tests of lines 349-399
IsVar(l)      == startswith(l.word, kw_var)
IsFuncion(l)  == ~IsVar(l) /\ startswith(l.word, kw_funcion)
IsImprimir(l) == ~IsVar(l) /\ ~IsFuncion(l) /\ startswith(l.word, kw_imprimir)
IsSi(l)       == ~IsVar(l) /\ ~IsFuncion(l) /\ ~IsImprimir(l) /\ startswith(l.word, kw_si)
IsPara(l)     == ~IsVar(l) /\ ~IsFuncion(l) /\ ~IsImprimir(l) /\ ~IsSi(l)
                   /\ startswith(l.word, kw_para)

\* what the run has done so far: one entry per thing done, with the line it was done at
Ev(ev) == [line |-> i, ev |-> ev]
Log(ev) == hist' = Append(hist, Ev(ev))

\* an uncaught exception leaves run_code
RunCrash ==
    /\ pc' = "crash"
    /\ Log("crash")
    /\ UNCHANGED <<lines, i, variables, functions, output, errors, frame>>

\* A variant of the diagnostic branches without their return: the run goes on
\* at the next line.  It is what RuntimeError is compared with.
RuntimeErrorGoOn(msg) ==
    /\ errors' = Append(errors, [msg |-> msg, line |-> i + 1])
    /\ i' = i + 1
    /\ Log("error")
    /\ UNCHANGED <<lines, pc, variables, functions, output, frame>>

\* appendPlainText('Error: ...'); return
RuntimeError(msg) ==
    /\ errors' = Append(errors, [msg |-> msg, line |-> i + 1])
    /\ pc' = "error"
    /\ Log("error")
    /\ UNCHANGED <<lines, i, variables, functions, output, frame>>

\* lines 367-376 (and 388-397, 415-424): the imprimir statement at line l,
\* after which the line index has advanced by one
Imprimir(l) ==
    IF l.e1.op = "str"
    THEN /\ output' = Append(output, l.e1.x)
         /\ i' = i + 1
         /\ Log("print")
         /\ UNCHANGED <<lines, variables, functions, errors, pc, frame>>
    ELSE IF eval(l.e1, variables).raised
    THEN RuntimeError("expresion invalida")
    ELSE /\ output' = Append(output, str(eval(l.e1, variables)))
         /\ i' = i + 1
         /\ Log("print")
         /\ UNCHANGED <<lines, variables, functions, errors, pc, frame>>

\* lines 347, 427: the loop ends when the index has passed the last line
RunDone ==
    /\ UNCHANGED <<lexVars, parseVars>>
    /\ pc = "top" /\ i >= Len(lines)
    /\ pc' = "done"
    /\ UNCHANGED <<lines, i, variables, functions, output, errors, frame, hist>>

AtTop == pc = "top" /\ i < Len(lines)

\* lines 349-357, 427
RunVar ==
    /\ UNCHANGED <<lexVars, parseVars>>
    /\ AtTop /\ IsVar(line)
    /\ IF line.parts # 2 THEN RunCrash
       ELSE IF eval(line.e1, variables).raised
       THEN RuntimeError("valor invalido para la variable")
       ELSE /\ variables' = Bind(variables, line.name, eval(line.e1, variables).v)
            /\ i' = i + 1
            /\ Log("var")
            /\ UNCHANGED <<lines, functions, output, errors, pc, frame>>

\* lines 358-361
RunFuncion ==
    /\ UNCHANGED <<lexVars, parseVars>>
    /\ AtTop /\ IsFuncion(line)
    /\ frame' = [frame EXCEPT !.func_name = line.name, !.func_body = <<>>]
    /\ i' = i + 1
    /\ pc' = "func"
    /\ Log("funcion")
    /\ UNCHANGED <<lines, variables, functions, output, errors>>

\* lines 362-365, 427: one test of the inner while and what follows it
RunFuncionScan ==
    /\ UNCHANGED <<lexVars, parseVars>>
    /\ pc = "func"
    /\ IF i >= Len(lines) THEN RunCrash
       ELSE IF ~startswith(line.word, kw_fin_funcion)
       THEN /\ frame' = [frame EXCEPT !.func_body = Append(@, line)]
            /\ i' = i + 1
            /\ Log("captured")
            /\ UNCHANGED <<lines, variables, functions, output, errors, pc>>
       ELSE /\ functions' = Bind(functions, frame.func_name, frame.func_body)
            /\ i' = i + 1
            /\ pc' = "top"
            /\ Log("fin_funcion")
            /\ UNCHANGED <<lines, variables, output, errors, frame>>

\* lines 366-376, 427
RunImprimir ==
    /\ UNCHANGED <<lexVars, parseVars>>
    /\ AtTop /\ IsImprimir(line)
    /\ Imprimir(line)

\* lines 377-384, 427
RunSi ==
    /\ UNCHANGED <<lexVars, parseVars>>
    /\ AtTop /\ IsSi(line)
    /\ IF line.parts < 2
       THEN /\ i' = i + 1
            /\ Log("si_ignored")
            /\ UNCHANGED <<lines, variables, functions, output, errors, pc, frame>>
       ELSE IF line.parts > 2 THEN RunCrash
       ELSE IF eval(line.e1, variables).raised THEN RunCrash
       ELSE IF line.name \in DOMAIN variables
               /\ variables[line.name] = eval(line.e1, variables).v
       THEN /\ i' = i + 1
            /\ pc' = "si_body"
            /\ Log("si_true")
            /\ UNCHANGED <<lines, variables, functions, output, errors, frame>>
       ELSE /\ i' = i + 2
            /\ Log("si_false")
            /\ UNCHANGED <<lines, variables, functions, output, errors, pc, frame>>

\* lines 385-398, 427: one test of the inner while and what follows it
RunSiBody ==
    /\ UNCHANGED <<lexVars, parseVars>>
    /\ pc = "si_body"
    /\ IF i < Len(lines) /\ ~startswith(line.word, kw_fin_si)
       THEN IF startswith(line.word, kw_imprimir)
            THEN Imprimir(line)
            ELSE /\ i' = i + 1
                 /\ Log("passed")
                 /\ UNCHANGED <<lines, variables, functions, output, errors, pc, frame>>
       ELSE /\ i' = i + 1
            /\ pc' = "top"
            /\ Log("fin_si")
            /\ UNCHANGED <<lines, variables, functions, output, errors, frame>>

\* lines 399-409
RunPara ==
    /\ UNCHANGED <<lexVars, parseVars>>
    /\ AtTop /\ IsPara(line)
    /\ IF line.parts # 3 THEN RuntimeError("sintaxis incorrecta en el bucle para")
       ELSE IF eval(line.e1, variables).raised THEN RunCrash
       \* exec("<var_name> = <var_value>"): a SyntaxError unless var_name is a name
       ELSE IF line.name \notin {"x", "i", "y"} THEN RunCrash
       ELSE /\ variables' = Bind(variables, line.name, eval(line.e1, variables).v)
            /\ frame' = [frame EXCEPT !.condition = line.e2, !.tgt = line.tgt,
                                      !.increment = line.e3, !.lead = line.lead]
            /\ pc' = "para_cond"
            /\ Log("para")
            /\ UNCHANGED <<lines, i, functions, output, errors>>

\* A variant of lines 410-411 in which a truthy test starts the body again at
\* the line after the para line.  It is what RunParaCond is compared with.
RunParaCondRewind ==
    /\ UNCHANGED <<lexVars, parseVars>>
    /\ pc = "para_cond"
    /\ IF eval(frame.condition, variables).raised THEN RunCrash
       ELSE IF eval(frame.condition, variables).v # 0
       THEN LET e == CHOOSE e \in 1..Len(hist) :
                         /\ hist[e].ev = "para"
                         /\ \A g \in (e + 1)..Len(hist) : hist[g].ev # "para"
            IN  /\ i' = hist[e].line + 1
                /\ pc' = "para_body"
                /\ Log("para_true")
                /\ UNCHANGED <<lines, variables, functions, output, errors, frame>>
       ELSE /\ i' = i + 1
            /\ pc' = "top"
            /\ Log("para_false")
            /\ UNCHANGED <<lines, variables, functions, output, errors, frame>>

\* lines 410-411, 427: one test of the while condition
RunParaCond ==
    /\ UNCHANGED <<lexVars, parseVars>>
    /\ pc = "para_cond"
    /\ IF eval(frame.condition, variables).raised THEN RunCrash
       ELSE IF eval(frame.condition, variables).v # 0
       THEN /\ i' = i + 1
            /\ pc' = "para_body"
            /\ Log("para_true")
            /\ UNCHANGED <<lines, variables, functions, output, errors, frame>>
       ELSE /\ i' = i + 1
            /\ pc' = "top"
            /\ Log("para_false")
            /\ UNCHANGED <<lines, variables, functions, output, errors, frame>>

\* lines 412-426: one test of the inner while and what follows it
RunParaBody ==
    /\ UNCHANGED <<lexVars, parseVars>>
    /\ pc = "para_body"
    /\ IF i < Len(lines) /\ ~startswith(line.word, kw_fin_para)
       THEN IF startswith(line.word, kw_imprimir)
            THEN Imprimir(line)
            ELSE /\ i' = i + 1
                 /\ Log("passed")
                 /\ UNCHANGED <<lines, variables, functions, output, errors, pc, frame>>
       \* exec(increment): an IndentationError when the clause starts with a blank
       ELSE IF frame.lead THEN RunCrash
       ELSE IF eval(frame.increment, variables).raised THEN RunCrash
       ELSE /\ variables' = Bind(variables, frame.tgt, eval(frame.increment, variables).v)
            /\ pc' = "para_cond"
            /\ Log("increment")
            /\ UNCHANGED <<lines, i, functions, output, errors, frame>>

\* lines 347-348, 427: a line no branch recognises
RunOther ==
    /\ UNCHANGED <<lexVars, parseVars>>
    /\ AtTop
    /\ ~IsVar(line) /\ ~IsFuncion(line) /\ ~IsImprimir(line) /\ ~IsSi(line) /\ ~IsPara(line)
    /\ i' = i + 1
    /\ Log("ignored")
    /\ UNCHANGED <<lines, variables, functions, output, errors, pc, frame>>

-----------------------------------------------------------------------------
(* lexer, then parser on the token list it returned.                       *)

AnalyzeWords == {kw_var, kw_imprimir, kw_funcion, kw_fin_funcion, kw_para, kw_fin_para,
                 <<"x">>, <<"5">>, <<NL>>, <<"@">>}

\* the words as a text: one blank between two words, none next to a newline
RECURSIVE Spaced(_)
Spaced(ws) ==
    IF ws = <<>> THEN <<>>
    ELSE IF Len(ws) = 1 THEN ws[1]
    ELSE ws[1] \o (IF ws[1] = <<NL>> \/ ws[2] = <<NL>> THEN <<>> ELSE <<" ">>)
               \o Spaced(Tail(ws))

\* "inicio\nfuncion f\nimprimir 5\nfin_funcion\nimprimir x\nfin"
SourceFuncion ==
    Spaced(<<kw_inicio, <<NL>>, kw_funcion, <<"f">>, <<NL>>, kw_imprimir, <<"5">>, <<NL>>,
             kw_fin_funcion, <<NL>>, kw_imprimir, <<"x">>, <<NL>>, kw_fin>>)

\* "inicio\npara x = 5\nimprimir 5\nfin_para\nimprimir x\nfin"
SourcePara ==
    Spaced(<<kw_inicio, <<NL>>, kw_para, <<"x">>, <<"=">>, <<"5">>, <<NL>>,
             kw_imprimir, <<"5">>, <<NL>>, kw_fin_para, <<NL>>, kw_imprimir, <<"x">>,
             <<NL>>, kw_fin>>)

\* "inicio\nvar x = 5\nimprimir x\nfin"
SourceVar ==
    Spaced(<<kw_inicio, <<NL>>, kw_var, <<"x">>, <<"=">>, <<"5">>, <<NL>>,
             kw_imprimir, <<"x">>, <<NL>>, kw_fin>>)

AnalyzeSources ==
    {Spaced(<<kw_inicio>> \o m \o <<kw_fin>>) : m \in SeqsUpTo(AnalyzeWords, MaxWords)}
      \cup {SourceFuncion, SourcePara, SourceVar}

\* lines 476-479 on the text of the editor
AnalyzeInit ==
    /\ code \in AnalyzeSources
    /\ pos = 0
    /\ line_num = 1
    /\ line_start = 0
    /\ tokens = <<>>
    /\ lex_pc = "scan"
    /\ lex_ret = ReturnNone
    /\ lex_out = <<>>

\* lines 439-444: lexer has returned a token list (not None) and parser is
\* called with it.  (The validar_codigo of lines 433-436 only keeps sources from
\* getting here; the properties below are about parser on lexer's result for
\* every source.)
AnalyzeParser ==
    /\ lex_pc = "returned" /\ ~lex_ret.is_none
    /\ parse_pc = "idle"
    /\ parse_pc' = "check"
    /\ UNCHANGED <<lexVars, parse_i, nodes, current_node, parse_out, runVars>>

-----------------------------------------------------------------------------
(* The routines, each run on its own, and parser on lexer's result.        *)

LexNext ==
    \/ LexNewline
    \/ LexSkip
    \/ LexMismatch
    \/ LexAppend
    \/ LexReturn

ParseNext ==
    \/ ParserCheck
    \/ ParseImprimir
    \/ ParseSi
    \/ ParseFinSi
    \/ ParseSino
    \/ ParseVar
    \/ ParseFuncion
    \/ ParseFinFuncion
    \/ ParsePara
    \/ ParseFinPara
    \/ ParseOther
    \/ ParseReturn

RunNext ==
    \/ RunDone
    \/ RunVar
    \/ RunFuncion
    \/ RunFuncionScan
    \/ RunImprimir
    \/ RunSi
    \/ RunSiBody
    \/ RunPara
    \/ RunParaCond
    \/ RunParaBody
    \/ RunOther

\* lexer(code) on every source
InitLex == LexInit /\ ParseIdle /\ RunIdle
SpecLex == InitLex /\ [][LexNext]_vars

\* parser(tokens) on every token list
InitParse == LexIdle /\ ParseInit /\ RunIdle
SpecParse == InitParse /\ [][ParseNext]_vars

\* run_code() on every program
InitRun == LexIdle /\ tokens = <<>> /\ ParseIdle /\ RunInit
SpecRun == InitRun /\ [][RunNext]_vars

\* parser(lexer(code)) on every source, beside parser(tokens) on every token
\* list (lexer gives no token of kind FIN_FUNCION, FIN_PARA or NEWLINE)
AnalyzeNext ==
    \/ LexNext
    \/ AnalyzeParser
    \/ ParseNext
InitAnalyze == (AnalyzeInit /\ ParseIdle /\ RunIdle) \/ InitParse
SpecAnalyze == InitAnalyze /\ [][AnalyzeNext]_vars

-----------------------------------------------------------------------------
(* Properties of lexer, checked under SpecLex.                             *)

LexReturnedTokens == lex_pc = "returned" /\ ~lex_ret.is_none
LexFailed         == lex_pc = "returned" /\ lex_ret.is_none

\* number of newline characters among the first n characters of the source
NewlinesBefore(n) == Cardinality({k \in 1..n : code[k] = NL})

KindsOf(ts) == [k \in 1..Len(ts) |-> ts[k][1]]

\* C4: the returned token list holds one NEWLINE token for every newline
\* character the NEWLINE rule consumed (line_num - 1 of them), blanks give no
\* token, and "var x = 5\nimprimir x\n" gives VAR ID OP NUMBER NEWLINE IMPRIMIR
\* ID NEWLINE.
C4_NewlineTokens ==
    LexReturnedTokens =>
        /\ Cardinality({k \in 1..Len(lex_ret.value) : lex_ret.value[k][1] = "NEWLINE"})
             = line_num - 1
        /\ \A k \in 1..Len(lex_ret.value) : lex_ret.value[k][1] # "SKIP"
        /\ code = SourceVarImprimir =>
             KindsOf(lex_ret.value) = <<"VAR", "ID", "OP", "NUMBER", "NEWLINE",
                                        "IMPRIMIR", "ID", "NEWLINE">>

\* C5: when lexer fails on an unexpected character, the line it reports is the
\* number of newline characters before that character plus 1, and it returns
\* None.
C5_ErrorLine ==
    (lex_pc = "returned" /\ lex_out # <<>>) =>
        /\ lex_out[1].line = NewlinesBefore(pos) + 1
        /\ lex_ret.is_none

HasVisibleChar == \E k \in 1..Len(code) : code[k] \notin {" ", "\t", NL}

-----------------------------------------------------------------------------
(* Properties of parser, checked under SpecParse.                          *)

Delimited ==
    /\ Len(tokens) > 0
    /\ tokens[1][1] = "INICIO"
    /\ tokens[Len(tokens)][1] = "FIN"

\* C3: a tree is returned only for a non-empty token list that starts with
\* INICIO and ends with FIN; any other list gets the start/end diagnostic and no
\* tree, and no node exists before the check has passed.
C3_TreeOnlyIfDelimited ==
    /\ parse_pc = "tree" => Delimited
    /\ parse_pc = "check" => nodes = <<>>
    /\ (~Delimited /\ parse_pc # "check") =>
          /\ parse_pc = "error"
          /\ nodes = <<>>
          /\ parse_out = <<"Error sintactico: inicio/fin">>

\* a delimited token list with statements between inicio and fin gave a tree
C3_Witness ==
    /\ parse_pc = "tree"
    /\ Delimited
    /\ Len(tokens) >= 4
    /\ Len(nodes) >= 4

\* C7: parser ends with a tree or one diagnostic: it never raises, and while it
\* walks the tokens the current node is a node of the tree.
C7_CurrentNodeExists ==
    /\ parse_pc # "crash"
    /\ parse_pc = "loop" => current_node \in 1..Len(nodes)
    /\ parse_pc \in {"tree", "error"} => Len(parse_out) = (IF parse_pc = "tree" THEN 0 ELSE 1)

\* number of tokens of kind k among the first n tokens
CountKind(k, n) == Cardinality({j \in 1..n : tokens[j][1] = k})

\* the token list is INICIO ... FIN with si blocks only: every SI has its
\* ENTONCES after a condition that holds no block word, every FIN_SI closes an
\* open SI, every SI is closed, and no other block word or var occurs
SiNested ==
    /\ Delimited
    /\ \A j \in 1..Len(tokens) :
           tokens[j][1] \notin {"SINO", "VAR", "FUNCION", "FIN_FUNCION", "PARA", "FIN_PARA"}
    /\ \A j \in 1..Len(tokens) :
           tokens[j][1] = "SI" =>
               /\ ScanTo("ENTONCES", j) < Len(tokens)
               /\ \A m \in (j + 1)..ScanTo("ENTONCES", j) :
                      tokens[m][1] \notin {"SI", "FIN_SI", "IMPRIMIR", "INICIO", "FIN"}
    /\ CountKind("ENTONCES", Len(tokens)) = CountKind("SI", Len(tokens))
    /\ \A n \in 1..Len(tokens) : CountKind("FIN_SI", n) <= CountKind("SI", n)
    /\ CountKind("FIN_SI", Len(tokens)) = CountKind("SI", Len(tokens))

\* how many nodes lie above node n (-1 for None)
RECURSIVE Depth(_)
Depth(n) == IF n = None THEN -1 ELSE 1 + Depth(nodes[n].parent)

\* C13: while parser walks a token list of properly nested si blocks, each
\* closed by its own fin_si and without sino, the current node lies exactly as
\* many si nodes below the root as si blocks are open at the token parser is at:
\* each SI descends one node and each FIN_SI goes back to the node that was
\* current at its SI.  For the list NestedSi the statement after the inner
\* fin_si hangs under the outer si node and the one after the outer fin_si
\* under the root.
C13_FinSiRestores ==
    SiNested =>
        /\ parse_pc = "loop" =>
               Depth(current_node) = CountKind("SI", parse_i) - CountKind("FIN_SI", parse_i)
        /\ (parse_pc = "tree" /\ tokens = NestedSi) =>
               /\ nodes[3].parent = 1 /\ nodes[4].parent = 3
               /\ nodes[6] = Item(kw_imprimir \o <<" ", "x">>, 3)
               /\ nodes[7] = Item(kw_imprimir \o <<" ", "x">>, 1)

-----------------------------------------------------------------------------
(* Properties of run_code, checked under SpecRun.                          *)

\* index (0-based) of the first line after line p that starts with w,
\* Len(lines) if there is none
RECURSIVE FirstAfter(_, _)
FirstAfter(p, w) ==
    IF p + 1 < Len(lines) /\ ~startswith(lines[p + 2].word, w)
    THEN FirstAfter(p + 1, w) ELSE p + 1

\* entries a+1 .. b-1 of hist that are ev at line k
Done(a, b, k, evs) == {e \in (a + 1)..(b - 1) : hist[e].line = k /\ hist[e].ev \in evs}

\* what changes the output or the environment
Effects == {"print", "var", "para", "increment"}

\* C1: when a para loop with a closing fin_para has ended, every imprimir of
\* its body has printed once per truthy test of the condition, and nothing
\* after the fin_para was done while the loop ran.
C1_ParaBodyOncePerIteration ==
    \A a, b \in 1..Len(hist) :
        (/\ a < b
         /\ hist[a].ev = "para"
         /\ hist[b].ev = "para_false"
         /\ \A c \in (a + 1)..(b - 1) : hist[c].ev # "para_false"
         /\ FirstAfter(hist[a].line, kw_fin_para) < Len(lines))
        => LET p == hist[a].line
               q == FirstAfter(p, kw_fin_para)
               N == Cardinality({c \in (a + 1)..(b - 1) : hist[c].ev = "para_true"})
           IN  /\ \A k \in (p + 1)..(q - 1) :
                     startswith(lines[k + 1].word, kw_imprimir)
                        => Cardinality(Done(a, b, k, {"print"})) = N
               /\ \A c \in (a + 1)..(b - 1) :
                     hist[c].ev \in {"print", "passed", "error"} => hist[c].line < q

\* C2: after a si with a closing fin_si whose test is false, no line between
\* the si and the fin_si prints or changes the environment, and the run goes on
\* no earlier than the fin_si; when the test is true and the run has ended,
\* every imprimir between them has printed once.
C2_SiBody ==
    \A a \in 1..Len(hist) :
        (hist[a].ev \in {"si_true", "si_false"}
           /\ FirstAfter(hist[a].line, kw_fin_si) < Len(lines))
        => LET s == hist[a].line
               q == FirstAfter(s, kw_fin_si)
           IN  /\ hist[a].ev = "si_false" =>
                     /\ \A k \in (s + 1)..(q - 1) : Done(a, Len(hist) + 1, k, Effects) = {}
                     /\ \A c \in (a + 1)..Len(hist) : hist[c].line >= q
               /\ (hist[a].ev = "si_true" /\ pc = "done") =>
                     \A k \in (s + 1)..(q - 1) :
                         startswith(lines[k + 1].word, kw_imprimir)
                            => Cardinality(Done(a, Len(hist) + 1, k, {"print"})) = 1

\* C8: run_code never raises, and whenever it is about to read lines[i] inside
\* a funcion block the index is one of the list.
C8_LineIndexInRange ==
    /\ pc = "func" => i \in 0..(Len(lines) - 1)
    /\ pc # "crash"
    /\ pc = "error" => Len(errors) = 1

\* C9: the step that emits a diagnostic prints nothing, binds nothing and ends the
\* run with that one diagnostic, every line printed so far coming from a line
\* above the failing one; and once a diagnostic is out no step changes the
\* output, the environment, the function table or the diagnostics.
C9_StopsAtDiagnostic ==
    [][ /\ errors # <<>> =>
            /\ output' = output /\ variables' = variables
            /\ functions' = functions /\ errors' = errors /\ i' = i
        /\ errors' # errors =>
            /\ output' = output /\ variables' = variables
            /\ Len(errors') = 1
            /\ pc' = "error"
            /\ errors'[1].line = i + 1
            /\ Len(output) = Cardinality({e \in 1..Len(hist) : hist[e].ev = "print"})
            /\ \A e \in 1..Len(hist) : hist[e].ev = "print" => hist[e].line < i
      ]_vars

\* a diagnostic is out after some output, with an imprimir still below
C9_Witness ==
    /\ pc = "error" /\ Len(errors) = 1 /\ output # <<>>
    /\ \E k \in (i + 1)..(Len(lines) - 1) : startswith(lines[k + 1].word, kw_imprimir)

\* line k (0-based) lies in no si, para or funcion block opened above it
Opener(l) == IsFuncion(l) \/ IsSi(l) \/ IsPara(l)
Closer(l) ==
    IF IsFuncion(l) THEN kw_fin_funcion ELSE IF IsSi(l) THEN kw_fin_si ELSE kw_fin_para
TopLevel(k) ==
    \A p \in 0..(k - 1) : Opener(lines[p + 1]) => FirstAfter(p, Closer(lines[p + 1])) < k

\* C10: when the run has reached the end of the lines, every funcion block that
\* is closed by a fin_funcion and lies in no other block (the last one of its
\* name) is in the function table with exactly the lines between the two, and
\* none of those lines has printed or changed the environment.
C10_FuncionCaptured ==
    pc = "done" =>
        \A k \in 0..(Len(lines) - 1) :
            (/\ IsFuncion(lines[k + 1])
             /\ FirstAfter(k, kw_fin_funcion) < Len(lines)
             /\ TopLevel(k)
             /\ \A m \in (k + 1)..(Len(lines) - 1) :
                    IsFuncion(lines[m + 1]) => lines[m + 1].name # lines[k + 1].name)
            => LET q == FirstAfter(k, kw_fin_funcion)
               IN  /\ lines[k + 1].name \in DOMAIN functions
                   /\ functions[lines[k + 1].name] = SubSeq(lines, k + 2, q)
                   /\ \A j \in (k + 1)..(q - 1) : Done(0, Len(hist) + 1, j, Effects) = {}

\* what run_code does with the line it is at, once per visit of the line (the
\* tests of a para condition and its increment are done at no line of their own)
Visits == {"var", "print", "error", "funcion", "captured", "fin_funcion", "si_ignored",
           "si_true", "si_false", "passed", "fin_si", "para", "ignored"}

\* no line has been visited twice
VisitedOnce ==
    \A a, b \in 1..Len(hist) :
        (hist[a].ev \in Visits /\ hist[b].ev \in Visits /\ hist[a].line = hist[b].line)
            => a = b

\* the number of lines that start with imprimir
ImprimirLines == Cardinality({k \in 1..Len(lines) : startswith(lines[k].word, kw_imprimir)})

\* C14: no step of run_code lowers the line index, whether at the top level,
\* in a si body, in a funcion capture or in a para iteration; no line is
\* visited twice, and the output never has more lines than the source has
\* imprimir lines.
C14_LineIndexNeverDecreases ==
    [][ /\ i' >= i
        /\ VisitedOnce'
        /\ Len(output') <= ImprimirLines'
      ]_vars

\* a run has ended after a para loop with two truthy tests and after some
\* output, with the index past the last line
C14_Witness ==
    /\ pc = "done" /\ i >= Len(lines) /\ output # <<>>
    /\ Cardinality({e \in 1..Len(hist) : hist[e].ev = "para_true"}) >= 2
    /\ \E e \in 1..Len(hist) : hist[e].ev \in {"si_true", "si_false", "fin_funcion"}

-----------------------------------------------------------------------------
(* Properties of parser on the token list of lexer, checked under          *)
(* SpecAnalyze.  The token list is lexer's when lex_pc = "returned".       *)

\* parser has returned a tree for the token list lexer returned
Analyzed == LexReturnedTokens /\ parse_pc = "tree"

BlockKinds == {"SI", "ENTONCES", "FIN_SI", "SINO", "VAR", "FUNCION", "FIN_FUNCION",
               "PARA", "FIN_PARA"}

\* the token list is INICIO, one funcion or para block whose closing word is
\* token k, one imprimir statement, FIN; nothing else opens or closes a block
OneBlock(k) ==
    /\ Len(tokens) = k + 3
    /\ tokens[1][1] = "INICIO"
    /\ tokens[2][1] \in {"FUNCION", "PARA"}
    /\ k > (IF tokens[2][1] = "FUNCION" THEN 3 ELSE 5)
    /\ tokens[k][2] = (IF tokens[2][1] = "FUNCION" THEN kw_fin_funcion ELSE kw_fin_para)
    /\ \A j \in 3..(k - 1) :
           tokens[j][1] \notin BlockKinds /\ tokens[j][2] \notin {kw_fin_funcion, kw_fin_para}
    /\ tokens[k + 1][1] = "IMPRIMIR"
    /\ tokens[k + 2][1] \in {"ID", "NUMBER", "STRING"}
    /\ tokens[k + 3][1] = "FIN"

\* C11: in the token list lexer returns, the words fin_funcion and fin_para have
\* the kinds FIN_FUNCION and FIN_PARA; and in the tree parser builds from it,
\* the imprimir statement that follows the closing word of a funcion / para
\* block is a child of the node the block node hangs under (the root, the
\* block node being the first node after the root and its inicio leaf), not a
\* node inside the block.
C11_ClosingWords ==
    /\ LexReturnedTokens =>
           \A k \in 1..Len(tokens) :
               /\ tokens[k][2] = kw_fin_funcion => tokens[k][1] = "FIN_FUNCION"
               /\ tokens[k][2] = kw_fin_para => tokens[k][1] = "FIN_PARA"
    /\ Analyzed =>
           \A k \in 1..(Len(tokens) - 3) :
               OneBlock(k) =>
                   /\ startswith(nodes[3].label, tokens[2][2]) /\ nodes[3].parent = 1
                   /\ nodes[Len(nodes) - 2]
                        = Item(kw_imprimir \o <<" ">> \o tokens[k + 2][2], 1)

\* the characters of s that are no blank
NotBlank(c) == c \notin SkipChars
NoBlanks(s) == SelectSeq(s, NotBlank)

\* offset of the end of the source line that offset p lies in
EndOfLine(p) ==
    IF \E q \in (p + 1)..Len(code) : code[q] = NL
    THEN (CHOOSE q \in (p + 1)..Len(code) :
              code[q] = NL /\ \A r \in (p + 1)..(q - 1) : code[r] # NL) - 1
    ELSE Len(code)

\* the source is inicio, one blank or newline, then the word var (the second
\* token), and has no string literal
StartsWithVar ==
    /\ startswith(code, kw_inicio)
    /\ Len(code) > Len(kw_inicio) /\ code[Len(kw_inicio) + 1] \in {" ", NL}
    /\ Len(tokens) >= 2 /\ tokens[2] = tok_var
    /\ \A q \in 1..Len(code) : code[q] # Quote

\* offset just after that word var
AfterVar == Len(kw_inicio) + 1 + Len(kw_var)

\* C12: in the tree parser builds from lexer's token list, the declaration text
\* under the var node is made of exactly the tokens between the word var and
\* the end of its source line (the same characters, blanks apart), and an
\* imprimir statement on the next line has a node of its own under the root.
C12_VarDeclarationLine ==
    (Analyzed /\ StartsWithVar) =>
        /\ nodes[3] = Item(kw_var, 1)
        /\ nodes[4].parent = 3
        /\ NoBlanks(nodes[4].label) = NoBlanks(SubSeq(code, AfterVar + 1, EndOfLine(AfterVar)))
        /\ code = SourceVar =>
               \E n \in 1..Len(nodes) : nodes[n] = Item(kw_imprimir \o <<" ", "x">>, 1)

=============================================================================
